---- MODULE Spec2Model ----
\* Model of the OnlyOffice command-service client
\* (tdrive/connectors/onlyoffice-connector/src/services/onlyoffice.service.ts):
\* the command transport (postUnsafe / post), the per-command methods, the
\* forgotten-document pass (processForgotten) and the polled licence value.
EXTENDS Integers, Sequences, FiniteSets, Bags, TLC

VARIABLES
    serverForgotten,   \* the editing server's forgotten list (a set of keys)
    pc,                \* where processForgotten is suspended
    listed,            \* history: the bag of keys in response.keys as received
    reordered,         \* history: the shuffle changed the order of the array
    gotList,           \* TRUE once getForgottenList has resolved in this pass
    forgottenFiles,    \* the local array after fisherYattesShuffleInPlace
    idx,               \* position of the for..of iterator (1-based, 0 = none)
    forgottenFileURL,  \* the local of the current iteration
    deleted,           \* the local counter
    outcome,           \* how the promise of processForgotten settled
    calls,             \* history: the calls the pass has issued, with their answers
    prevKept,          \* keys the previous pass left alone (processor said false)
    pollPc,            \* the refresh loop of the poller: "waiting" | "refreshing"
    lastValue,         \* the poller's cached value
    lastRefresh,       \* the poller's timestamp of that value (0 = never)
    now,               \* the clock (capped)
    lastGood,          \* history: payload of the latest successful licence response
    lastAttempt,       \* history: how the latest refresh attempt ended
    seen,              \* what the latest getLatestLicence() call returned
    cmdPc,             \* a direct command method call: "idle" | "pending" | "settled"
    cmdReq,            \* the request object of that call
    cmdRaw,            \* what axios.post gave for it
    cmdPosted,         \* how the promise of post() inside it settled
    cmdLabel,          \* the error label in the message of its rejection
    cmdPosts,          \* history: POST requests sent for the call
    cmdOut             \* how the promise of that call settled

vars == <<serverForgotten, pc, listed, reordered, gotList, forgottenFiles, idx, forgottenFileURL,
          deleted, outcome, calls, prevKept, pollPc, lastValue, lastRefresh,
          now, lastGood, lastAttempt, seen, cmdPc, cmdReq, cmdRaw, cmdPosted,
          cmdLabel, cmdPosts, cmdOut>>

passVars == <<pc, listed, reordered, gotList, forgottenFiles, idx, forgottenFileURL, deleted,
              outcome, calls, prevKept>>
pollVars == <<pollPc, lastValue, lastRefresh, now, lastGood, lastAttempt, seen>>
cmdVars == <<cmdPc, cmdReq, cmdRaw, cmdPosted, cmdLabel, cmdPosts, cmdOut>>

----
\* Bounds of the model.

\* Longest list the server answers getForgottenList with.
MaxLen == 3
\* Largest integer the server puts in the error field (the enum ends at 6).
MaxCode == 7
\* Last tick of the clock.
MaxTime == 3

Keys == {"a", "b", "c"}
Licences == {"lic1", "lic2"}
NoKey == "-"

----
\* ErrorCode enum.
SUCCESS == 0
KEY_MISSING_OR_DOC_NOT_FOUND == 1
INVALID_TOKEN == 6

\* The enum as an object: member name -> value.
ErrorCode ==
    [SUCCESS |-> SUCCESS,
     KEY_MISSING_OR_DOC_NOT_FOUND |-> KEY_MISSING_OR_DOC_NOT_FOUND,
     INVALID_CALLBACK_URL |-> 2,
     INTERNAL_SERVER_ERROR |-> 3,
     FORCE_SAVE_BUT_NO_CHANGES_TO_APPLY |-> 4,
     COMMAND_NOT_CORRECT |-> 5,
     INVALID_TOKEN |-> INVALID_TOKEN]

\* Callback.Status, the other numeric enum of the file.
CallbackStatus ==
    [BEING_EDITED |-> 1,
     READY_FOR_SAVING |-> 2,
     ERROR_SAVING |-> 3,
     CLOSED_WITHOUT_CHANGES |-> 4,
     BEING_EDITED_BUT_IS_SAVED |-> 6,
     ERROR_FORCE_SAVING |-> 7]

\* A JavaScript value found in the error field of a body: a number n is <<n>>,
\* a body without that field (undefined) is << >>. The server answers with the
\* numbers -1..MaxCode or with a body that has no error field.
Num(n) == <<n>>
Undefined == << >>
ErrorFields == {Undefined, Num(-1)} \cup {Num(n) : n \in 0..MaxCode}

\* `===` between the error field and an enum member.
StrictEquals(v, n) == v = Num(n)

Range(s) == {s[i] : i \in 1..Len(s)}

\* Number of times key occurs in the sequence s, and the bag of its elements.
Occurrences(s, key) == Cardinality({i \in 1..Len(s) : s[i] = key})
BagOf(s) == [k \in Range(s) |-> Occurrences(s, k)]

\* Settled promises: [kind |-> "value", value |-> v], or a rejection.
Resolved(v) == [kind |-> "value", value |-> v]
Unsettled == [kind |-> "none"]
TransportError == [kind |-> "TransportError"]
ProcessorError == [kind |-> "ProcessorError"]

\* What the poller holds before its first value, and a reader that has not read.
Absent == [absent |-> TRUE]
Unread == [unread |-> TRUE]

\* The answer of a call that has not settled.
Pending == [t |-> "pending"]

\* new CommandError(errorCode, req, res)
CommandError(errorCode) == [kind |-> "CommandError", errorCode |-> errorCode]

\* Utils.getKeyForValueSafe(value, enum, enumName): the name of the member of
\* enum with that value, or a description of the unrecognised value.
getKeyForValueSafe(value, enum, enumName) ==
    LET names == {n \in DOMAIN enum : Num(enum[n]) = value}
    IN IF names # {} THEN [name |-> CHOOSE n \in names : TRUE]
       ELSE [unrecognised |-> value, enum |-> enumName]

\* ErrorCodeFromValue looking the code up in the wrong enum.
ErrorCodeFromCallbackStatus(value) ==
    getKeyForValueSafe(value, CallbackStatus, "OnlyOffice.ErrorCode")

\* ErrorCodeFromValue(value)
ErrorCodeFromValue(value) == getKeyForValueSafe(value, ErrorCode, "OnlyOffice.ErrorCode")

\* The label in the message of a rejection: CommandError's constructor resolves
\* it from the code; other outcomes carry none.
NoLabel == [none |-> TRUE]
LabelOf(out) == IF out.kind = "CommandError" THEN ErrorCodeFromValue(out.errorCode) ELSE NoLabel

----
\* Command catalog: the request objects.
VersionRequest == [c |-> "version", key |-> NoKey]
LicenseRequest == [c |-> "license", key |-> NoKey]
ForceSaveRequest(key) == [c |-> "forcesave", key |-> key]
GetForgottenRequest(key) == [c |-> "getForgotten", key |-> key]
GetForgottenListRequest == [c |-> "getForgottenList", key |-> NoKey]
\* The deleteForgotten request built with a key other than the one given.
DeleteForgottenRequestOtherKey(key) ==
    [c |-> "deleteForgotten", key |-> CHOOSE k \in Keys : k # key]

DeleteForgottenRequest(key) == [c |-> "deleteForgotten", key |-> key]

----
\* The editing server, seen from the client.

\* URL under which the server serves a forgotten document.
UrlOf(key) == [a |-> "url-a", b |-> "url-b", c |-> "url-c"][key]

\* The listings of a forgotten set: every key of it, in any order, repeats allowed.
RECURSIVE SeqsOver(_, _)
SeqsOver(S, n) ==
    IF n = 0 THEN {<< >>}
    ELSE LET shorter == SeqsOver(S, n - 1)
         IN shorter \cup {Append(s, k) : s \in {t \in shorter : Len(t) = n - 1}, k \in S}

Listings(S) == {s \in SeqsOver(S, MaxLen) : Range(s) = S}

\* Body of a success response to req when the server holds the forgotten set S.
SuccessBodies(req, S) ==
    CASE req.c = "version" -> {[error |-> Num(SUCCESS), version |-> "v1"]}
      [] req.c = "license" -> {[error |-> Num(SUCCESS), license |-> l] : l \in Licences}
      [] req.c = "forcesave" -> {[error |-> Num(SUCCESS), key |-> req.key]}
      [] req.c = "getForgottenList" ->
            {[error |-> Num(SUCCESS), keys |-> l] : l \in Listings(S)}
      [] req.c = "getForgotten" ->
            IF req.key \in S
            THEN {[error |-> Num(SUCCESS), key |-> req.key, url |-> UrlOf(req.key)]}
            ELSE {}
      [] req.c = "deleteForgotten" ->
            IF req.key \in S THEN {[error |-> Num(SUCCESS), key |-> req.key]} ELSE {}

\* Forgotten set after the server has carried out req.
Applied(req, S) == IF req.c = "deleteForgotten" THEN S \ {req.key} ELSE S

\* A body that is not JSON: axios hands the text over as result.data, and the
\* error property of a string is undefined.
NonJsonBody == [error |-> Undefined, text |-> "<html>"]
IsJson(data) == "text" \notin DOMAIN data

\* What axios.post can give for req, with the server's forgotten set afterwards:
\* a rejection (nothing reached the server, or the answer was lost), a body
\* that is not JSON, a body with a non-SUCCESS error field or none, or a
\* success body.
ServerAnswers(req, S) ==
    {[ax |-> [t |-> "throw"], after |-> T] : T \in {S, Applied(req, S)}}
    \cup {[ax |-> [t |-> "data", data |-> NonJsonBody], after |-> S]}
    \cup {[ax |-> [t |-> "data", data |-> [error |-> e]], after |-> S] :
             e \in ErrorFields \ {Num(SUCCESS)}}
    \cup {[ax |-> [t |-> "data", data |-> b], after |-> Applied(req, S)] :
             b \in SuccessBodies(req, S)}

----
\* BaseRequest

\* postUnsafe(): result.data as it came, or the rejection of axios.post.
postUnsafe(ax) == IF ax.t = "throw" THEN TransportError ELSE Resolved(ax.data)

\* post() throwing a CommandError built without the code of the response.
postLosesCode(ax) ==
    LET result == postUnsafe(ax)
    IN IF result.kind # "value" THEN result
       ELSE IF StrictEquals(result.value.error, SUCCESS) THEN result
       ELSE CommandError(Undefined)

\* post(): the result when its error field is SUCCESS, else throws CommandError.
post(ax) ==
    LET result == postUnsafe(ax)
    IN IF result.kind # "value" THEN result
       ELSE IF StrictEquals(result.value.error, SUCCESS) THEN result
       ELSE CommandError(result.value.error)

----
\* OnlyOfficeService: the command methods (post().then(response => field)).

getVersion(ax) ==
    LET r == post(ax) IN IF r.kind = "value" THEN Resolved(r.value.version) ELSE r

\* getLicense() over postUnsafe(), which does not look at the error field.
getLicenseUnsafe(ax) == postUnsafe(ax)

getLicense(ax) == post(ax)

forceSave(ax) ==
    LET r == post(ax) IN IF r.kind = "value" THEN Resolved(r.value.key) ELSE r

\* getForgottenList() that answers a failure with the empty list.
getForgottenListCaught(ax) ==
    LET r == post(ax) IN IF r.kind = "value" THEN Resolved(r.value.keys) ELSE Resolved(<< >>)

getForgottenList(ax) ==
    LET r == post(ax) IN IF r.kind = "value" THEN Resolved(r.value.keys) ELSE r

\* getForgotten extracting the key instead of the url.
getForgottenReturnsKey(ax) ==
    LET r == post(ax) IN IF r.kind = "value" THEN Resolved(r.value.key) ELSE r

getForgotten(ax) ==
    LET r == post(ax) IN IF r.kind = "value" THEN Resolved(r.value.url) ELSE r

\* deleteForgotten() that swallows a failure.
deleteForgottenCaught(ax) ==
    LET r == post(ax) IN IF r.kind = "value" THEN Resolved(r.value.key) ELSE Resolved(NoKey)

deleteForgotten(ax) ==
    LET r == post(ax) IN IF r.kind = "value" THEN Resolved(r.value.key) ELSE r

----
\* Utils.fisherYattesShuffleInPlace: for i from the last index down to the
\* second, swap element i with element j, j drawn from 1..i.
Swap(s, i, j) == [s EXCEPT ![i] = s[j], ![j] = s[i]]

RECURSIVE ShuffleFrom(_, _)
ShuffleFrom(s, i) ==
    IF i <= 1 THEN {s}
    ELSE UNION {ShuffleFrom(Swap(s, i, j), i - 1) : j \in 1..i}

fisherYattesShuffleInPlace(s) == ShuffleFrom(s, Len(s))

----
Init ==
    /\ serverForgotten \in SUBSET Keys
    /\ pc = "idle"
    /\ listed = EmptyBag
    /\ reordered = FALSE
    /\ gotList = FALSE
    /\ forgottenFiles = << >>
    /\ idx = 0
    /\ forgottenFileURL = NoKey
    /\ deleted = 0
    /\ outcome = Unsettled
    /\ calls = << >>
    /\ prevKept = {}
    /\ pollPc = "waiting"
    /\ lastValue = Absent
    /\ lastRefresh = 0
    /\ now = 1
    /\ lastGood = Absent
    /\ lastAttempt = "none"
    /\ seen = Unread
    /\ cmdPc = "idle"
    /\ cmdReq = VersionRequest
    /\ cmdRaw = Pending
    /\ cmdPosted = Unsettled
    /\ cmdLabel = NoLabel
    /\ cmdPosts = 0
    /\ cmdOut = Unsettled

----
\* OnlyOfficeService.processForgotten

\* An entry of the history: the call and, once it has settled, its answer (what
\* axios.post gave, or [t |-> "true" | "false" | "throw"] for the processor).
Call(op, key, arg) == [op |-> op, key |-> key, arg |-> arg, ans |-> Pending]

\* The history with the answer of the awaited (last) call filled in: whether
\* axios.post rejected and, if not, the error field of the body.
Envelope(ans) ==
    IF ans.t = "data"
    THEN [t |-> "data", error |-> ans.data.error, json |-> IsJson(ans.data)]
    ELSE ans
Answered(log, ans) == [log EXCEPT ![Len(log)].ans = Envelope(ans)]

\* Positions of the calls of kind op in this pass.
CallsOf(op) == {i \in 1..Len(calls) : calls[i].op = op}

\* Keys of the calls of kind op in this pass.
CallKeys(op) == {calls[i].key : i \in CallsOf(op)}

\* Keys for which the processor resolved to ret ("true" or "false") in this pass.
VerdictKeys(ret) == {calls[i].key : i \in {j \in CallsOf("processor") : calls[j].ans.t = ret}}

\* The loop fetching the element it has just left (index off by one).
NextIterationOffByOne(files, i, n, log) ==
    IF i < Len(files)
    THEN /\ idx' = i + 1
         /\ pc' = "getForgotten"
         /\ calls' = Append(log, Call("getForgotten", files[IF i = 0 THEN 1 ELSE i], NoKey))
         /\ outcome' = outcome
    ELSE /\ idx' = i
         /\ pc' = "returned"
         /\ calls' = log
         /\ outcome' = Resolved(n)

\* The loop stopping one element early.
NextIterationSkipsLast(files, i, n, log) ==
    IF i < Len(files) - 1
    THEN /\ idx' = i + 1
         /\ pc' = "getForgotten"
         /\ calls' = Append(log, Call("getForgotten", files[i + 1], NoKey))
         /\ outcome' = outcome
    ELSE /\ idx' = i
         /\ pc' = "returned"
         /\ calls' = log
         /\ outcome' = Resolved(n)

\* The loop starting the getForgotten of the next two files together instead of
\* awaiting each iteration.
NextIterationPrefetch(files, i, n, log) ==
    IF i < Len(files)
    THEN /\ idx' = i + 1
         /\ pc' = "getForgotten"
         /\ calls' = IF i + 1 < Len(files)
                      THEN log \o <<Call("getForgotten", files[i + 2], NoKey),
                                    Call("getForgotten", files[i + 1], NoKey)>>
                      ELSE Append(log, Call("getForgotten", files[i + 1], NoKey))
         /\ outcome' = outcome
    ELSE /\ idx' = i
         /\ pc' = "returned"
         /\ calls' = log
         /\ outcome' = Resolved(n)

\* The loop asking the server for its list again before each further
\* iteration.
NextIterationRelists(files, i, n, log) ==
    IF i < Len(files)
    THEN /\ idx' = i
         /\ pc' = "getForgottenList"
         /\ calls' = Append(log, Call("getForgottenList", NoKey, NoKey))
         /\ outcome' = outcome
    ELSE /\ idx' = i
         /\ pc' = "returned"
         /\ calls' = log
         /\ outcome' = Resolved(n)

\* The for..of loop over files moves past position i with the counter at n: the
\* next iteration starts with its getForgotten, or the function returns n.
NextIteration(files, i, n, log) ==
    IF i < Len(files)
    THEN /\ idx' = i + 1
         /\ pc' = "getForgotten"
         /\ calls' = Append(log, Call("getForgotten", files[i + 1], NoKey))
         /\ outcome' = outcome
    ELSE /\ idx' = i
         /\ pc' = "returned"
         /\ calls' = log
         /\ outcome' = Resolved(n)

\* An empty list taken for a failure instead of returning 0.
ListedThrowsOnEmpty(keys, log) ==
    IF Len(keys) = 0
    THEN /\ pc' = "thrown"
         /\ outcome' = [kind |-> "EmptyListError"]
         /\ calls' = log
         /\ UNCHANGED <<forgottenFiles, reordered, idx, deleted>>
    ELSE \E shuffled \in fisherYattesShuffleInPlace(keys) :
         /\ forgottenFiles' = shuffled
         /\ reordered' = (shuffled # keys)
         /\ deleted' = 0
         /\ idx' = 1
         /\ pc' = "getForgotten"
         /\ calls' = Append(log, Call("getForgotten", shuffled[1], NoKey))
         /\ outcome' = outcome

\* What follows `await this.getForgottenList()` resolving to keys: the empty
\* check, the shuffle, `let deleted = 0` and the start of the loop.
Listed(keys, log) ==
    IF Len(keys) = 0
    THEN /\ pc' = "returned"
         /\ outcome' = Resolved(0)
         /\ calls' = log
         /\ UNCHANGED <<forgottenFiles, reordered, idx, deleted>>
    ELSE \E shuffled \in fisherYattesShuffleInPlace(keys) :
         /\ forgottenFiles' = shuffled
         /\ reordered' = (shuffled # keys)
         /\ deleted' = 0
         /\ NextIteration(shuffled, 0, 0, log)

\* The processor's boolean ignored: every processed file is deleted.
shouldDeleteAlways(ans) == IF ans.t = "throw" THEN ProcessorError ELSE Resolved(TRUE)

\* The processor's rejection caught and taken for false.
shouldDeleteCaught(ans) == Resolved(ans.t = "true")

\* `await processor(key, url)`: its boolean, or its rejection rethrown.
shouldDelete(ans) == IF ans.t = "throw" THEN ProcessorError ELSE Resolved(ans.t = "true")

\* The counter left as it was.
NotIncremented(n) == n

\* deleted++
Incremented(n) == n + 1

\* A caller invokes processForgotten(processor): getForgottenList is sent.
ProcessForgotten ==
    /\ pc \in {"idle", "returned", "thrown"}
    /\ pc' = "getForgottenList"
    /\ prevKept' = IF gotList THEN VerdictKeys("false") \ VerdictKeys("true") ELSE prevKept
    /\ listed' = EmptyBag
    /\ reordered' = FALSE
    /\ gotList' = FALSE
    /\ forgottenFiles' = << >>
    /\ idx' = 0
    /\ forgottenFileURL' = NoKey
    /\ deleted' = 0
    /\ outcome' = Unsettled
    /\ calls' = <<Call("getForgottenList", NoKey, NoKey)>>
    /\ UNCHANGED <<serverForgotten, pollVars, cmdVars>>

\* `await this.getForgottenList()` settles.
GetForgottenListSettles ==
    /\ pc = "getForgottenList"
    /\ \E ans \in ServerAnswers(GetForgottenListRequest, serverForgotten) :
        LET r == getForgottenList(ans.ax)
            log == Answered(calls, ans.ax)
        IN /\ serverForgotten' = ans.after
           /\ IF r.kind # "value"
              THEN /\ pc' = "thrown"
                   /\ outcome' = r
                   /\ calls' = log
                   /\ UNCHANGED <<listed, reordered, gotList, forgottenFiles, idx, deleted>>
              ELSE /\ listed' = BagOf(r.value)
                   /\ gotList' = TRUE
                   /\ Listed(r.value, log)
    /\ UNCHANGED <<forgottenFileURL, prevKept, pollVars, cmdVars>>

\* `await this.getForgotten(forgottenFileKey)` settles; the processor is invoked.
GetForgottenSettles ==
    /\ pc = "getForgotten"
    /\ \E ans \in ServerAnswers(GetForgottenRequest(forgottenFiles[idx]), serverForgotten) :
        LET r == getForgotten(ans.ax)
            log == Answered(calls, ans.ax)
        IN /\ serverForgotten' = ans.after
           /\ IF r.kind # "value"
              THEN /\ pc' = "thrown"
                   /\ outcome' = r
                   /\ calls' = log
                   /\ UNCHANGED forgottenFileURL
              ELSE /\ forgottenFileURL' = r.value
                   /\ pc' = "processor"
                   /\ calls' = Append(log, Call("processor", forgottenFiles[idx], r.value))
                   /\ outcome' = outcome
    /\ UNCHANGED <<listed, reordered, gotList, forgottenFiles, idx, deleted, prevKept,
                   pollVars, cmdVars>>

\* `await processor(forgottenFileKey, forgottenFileURL)` settles.
ProcessorSettles ==
    /\ pc = "processor"
    /\ \E ans \in {[t |-> "true"], [t |-> "false"], [t |-> "throw"]} :
        LET r == shouldDelete(ans)
            log == Answered(calls, ans)
        IN IF r.kind # "value"
           THEN /\ pc' = "thrown"
                /\ outcome' = r
                /\ calls' = log
                /\ UNCHANGED idx
           ELSE IF r.value
           THEN /\ pc' = "deleteForgotten"
                /\ calls' = Append(log, Call("deleteForgotten", forgottenFiles[idx], NoKey))
                /\ UNCHANGED <<idx, outcome>>
           ELSE NextIteration(forgottenFiles, idx, deleted, log)
    /\ UNCHANGED <<serverForgotten, listed, reordered, gotList, forgottenFiles,
                   forgottenFileURL, deleted, prevKept, pollVars, cmdVars>>

\* `await this.deleteForgotten(forgottenFileKey)` settles; deleted++.
DeleteForgottenSettles ==
    /\ pc = "deleteForgotten"
    /\ \E ans \in ServerAnswers(DeleteForgottenRequest(forgottenFiles[idx]), serverForgotten) :
        LET r == deleteForgotten(ans.ax)
            log == Answered(calls, ans.ax)
        IN /\ serverForgotten' = ans.after
           /\ IF r.kind # "value"
              THEN /\ pc' = "thrown"
                   /\ outcome' = r
                   /\ calls' = log
                   /\ UNCHANGED <<idx, deleted>>
              ELSE /\ deleted' = Incremented(deleted)
                   /\ NextIteration(forgottenFiles, idx, Incremented(deleted), log)
    /\ UNCHANGED <<listed, reordered, gotList, forgottenFiles, forgottenFileURL, prevKept,
                   pollVars, cmdVars>>

----
\* The poller (PolledThingieValue around getLicense) and getLatestLicence.

\* Time passes.
Tick ==
    /\ now < MaxTime
    /\ now' = now + 1
    /\ UNCHANGED <<serverForgotten, passVars, cmdVars, pollPc, lastValue, lastRefresh,
                   lastGood, lastAttempt, seen>>

\* The refresh loop wakes up and calls the producer: getLicense() is sent.
RefreshStarts ==
    /\ pollPc = "waiting"
    /\ pollPc' = "refreshing"
    /\ UNCHANGED <<serverForgotten, passVars, cmdVars, lastValue, lastRefresh, now,
                   lastGood, lastAttempt, seen>>

\* The cache after the producer settled with r at time t: a value replaces the
\* cached value and its timestamp, a failure is logged and changes nothing.
Refreshed(r, t, cache) ==
    IF r.kind = "value" THEN [value |-> r.value, at |-> t] ELSE cache

\* The refresh loop giving up after a failed refresh.
RescheduledUnlessFailed(r) == IF r.kind = "value" THEN "waiting" ELSE "stopped"

\* The refresh loop after the producer settled with r: it waits for its next
\* period whatever r is.
Rescheduled(r) == "waiting"

\* The producer (getLicense) settles.
RefreshSettles ==
    /\ pollPc = "refreshing"
    /\ \E ans \in ServerAnswers(LicenseRequest, serverForgotten) :
        LET cache == Refreshed(getLicense(ans.ax), now, [value |-> lastValue, at |-> lastRefresh])
            good == ans.ax.t = "data" /\ ans.ax.data.error = Num(SUCCESS)
        IN /\ lastValue' = cache.value
           /\ lastRefresh' = cache.at
           /\ lastGood' = IF good THEN ans.ax.data ELSE lastGood
           /\ lastAttempt' = IF good THEN "ok" ELSE "failed"
           /\ pollPc' = Rescheduled(getLicense(ans.ax))
    /\ UNCHANGED <<serverForgotten, passVars, cmdVars, now, seen>>

\* getLatestLicence(): this.poller.latest()
latest == lastValue
getLatestLicence == latest

\* A read that takes the cached value away.
LicenceReadAndClear ==
    /\ seen' = getLatestLicence
    /\ lastValue' = Absent
    /\ UNCHANGED <<serverForgotten, passVars, cmdVars, pollPc, lastRefresh, now,
                   lastGood, lastAttempt>>

\* A caller reads the licence status.
LicenceRead ==
    /\ seen' = getLatestLicence
    /\ UNCHANGED <<serverForgotten, passVars, cmdVars, pollPc, lastValue, lastRefresh, now,
                   lastGood, lastAttempt>>

----
\* The editing server outside this client: a document is closed without its
\* changes having been saved, and its key joins the forgotten set.
ServerForgets ==
    /\ \E k \in Keys \ serverForgotten : serverForgotten' = serverForgotten \cup {k}
    /\ UNCHANGED <<passVars, pollVars, cmdVars>>

----
\* Direct calls of the command methods.

Requests ==
    {VersionRequest, LicenseRequest, GetForgottenListRequest}
    \cup {ForceSaveRequest(k) : k \in Keys}
    \cup {GetForgottenRequest(k) : k \in Keys}
    \cup {DeleteForgottenRequest(k) : k \in Keys}

\* What the method that builds req makes of the answer of axios.post.
Method(req, ax) ==
    CASE req.c = "version" -> getVersion(ax)
      [] req.c = "license" -> getLicense(ax)
      [] req.c = "forcesave" -> forceSave(ax)
      [] req.c = "getForgottenList" -> getForgottenList(ax)
      [] req.c = "getForgotten" -> getForgotten(ax)
      [] req.c = "deleteForgotten" -> deleteForgotten(ax)

\* post() asking again, once, when the command did not succeed.
AfterPostRetries(r, posts) ==
    IF r.kind = "value" \/ posts >= 2
    THEN [pc |-> "settled", posts |-> posts]
    ELSE [pc |-> "pending", posts |-> posts + 1]

\* post() after its one `await this.postUnsafe()`: it returns or throws, and
\* sends nothing more.
AfterPost(r, posts) == [pc |-> "settled", posts |-> posts]

\* A caller invokes a command method: its request is sent.
CommandCall ==
    /\ cmdPc \in {"idle", "settled"}
    /\ \E req \in Requests : cmdReq' = req
    /\ cmdPc' = "pending"
    /\ cmdRaw' = Pending
    /\ cmdPosted' = Unsettled
    /\ cmdLabel' = NoLabel
    /\ cmdPosts' = 1
    /\ cmdOut' = Unsettled
    /\ UNCHANGED <<serverForgotten, passVars, pollVars>>

\* The promise of that call settles.
CommandSettles ==
    /\ cmdPc = "pending"
    /\ \E ans \in ServerAnswers(cmdReq, serverForgotten) :
        /\ serverForgotten' = ans.after
        /\ cmdRaw' = ans.ax
        /\ cmdPosted' = post(ans.ax)
        /\ cmdLabel' = LabelOf(post(ans.ax))
        /\ cmdOut' = Method(cmdReq, ans.ax)
        /\ cmdPc' = AfterPost(post(ans.ax), cmdPosts).pc
        /\ cmdPosts' = AfterPost(post(ans.ax), cmdPosts).posts
    /\ UNCHANGED <<cmdReq, passVars, pollVars>>

----
\* The pass, the refresh loop and the direct calls are independent tasks; they
\* share nothing but the server.
NextPass ==
    \/ ProcessForgotten
    \/ GetForgottenListSettles
    \/ GetForgottenSettles
    \/ ProcessorSettles
    \/ DeleteForgottenSettles

NextPoller ==
    \/ Tick
    \/ RefreshStarts
    \/ RefreshSettles
    \/ LicenceRead

NextCommand ==
    \/ CommandCall
    \/ CommandSettles

Next == NextPass \/ NextPoller \/ NextCommand

Spec == Init /\ [][Next]_vars

\* Each task on its own.
SpecPass == Init /\ [][NextPass]_vars
SpecPoller == Init /\ [][NextPoller]_vars
\* The poller with the refresh loop scheduled fairly: a due refresh is
\* eventually started and a started one eventually settles.
SpecPollerFair == SpecPoller /\ WF_vars(RefreshStarts) /\ WF_vars(RefreshSettles)

SpecCommand == Init /\ [][NextCommand]_vars

\* The service started against a server that holds one forgotten document.
InitOneKey == Init /\ serverForgotten = {"a"}

\* The refresh loop and its readers running while passes are made.
SpecPollerAndPass == InitOneKey /\ [][NextPoller \/ NextPass]_vars

\* Passes made while the server goes on forgetting documents.
SpecPassAndServer == InitOneKey /\ [][NextPass \/ ServerForgets]_vars

----
\* Properties.

\* The recorded answer is a failure of the call: axios.post rejected, or the
\* body's error field is not SUCCESS.
Failed(ans) == ans.t = "throw" \/ (ans.t = "data" /\ ans.error # Num(SUCCESS))

\* How a call that got the failed answer must reject.
RejectsWith(out, ans) ==
    IF ans.t = "throw" THEN out = [kind |-> "TransportError"]
    ELSE out = [kind |-> "CommandError", errorCode |-> ans.error]

\* Number of calls of kind op for key in this pass.
CallsFor(op, key) == Cardinality({i \in CallsOf(op) : calls[i].key = key})

IsProcessorCall(c) == c.op = "processor"

\* The keys handed to the processor in this pass, in order.
Visited ==
    LET p == SelectSeq(calls, IsProcessorCall) IN [i \in 1..Len(p) |-> p[i].key]

\* The sequence s is an arrangement of the bag b.
IsPermutation(s, b) ==
    /\ Len(s) = BagCardinality(b)
    /\ \A k \in Range(s) \cup BagToSet(b) : Occurrences(s, k) = CopiesIn(k, b)

\* C1: whenever post() received a response body, it resolves with that body if
\* and only if the body's error field is SUCCESS (0); for every other error
\* field, integers outside 0..6 included, it rejects with a CommandError that
\* carries exactly the value found in the response.
C1_PostSucceedsIffSuccess ==
    (cmdPc = "settled" /\ cmdRaw.t = "data") =>
        IF cmdRaw.data.error = Num(SUCCESS)
        THEN cmdPosted = [kind |-> "value", value |-> cmdRaw.data]
        ELSE cmdPosted = [kind |-> "CommandError", errorCode |-> cmdRaw.data.error]

\* C1 witness: a response with an error code outside the enum was rejected.
C1_Witness ==
    /\ cmdPc = "settled"
    /\ cmdRaw.t = "data"
    /\ cmdRaw.data.error = Num(MaxCode)
    /\ cmdPosted.kind = "CommandError"

\* C2: when getForgottenList resolves to the empty list, processForgotten has
\* returned 0 and the getForgottenList request is the only call of the pass.
C2_EmptyListReturnsZero ==
    (gotList /\ listed = EmptyBag) =>
        /\ pc = "returned"
        /\ outcome = [kind |-> "value", value |-> 0]
        /\ Len(calls) = 1
        /\ calls[1].op = "getForgottenList"

\* C2 witness: a pass over an empty forgotten list has returned.
C2_Witness == gotList /\ listed = EmptyBag /\ pc = "returned" /\ serverForgotten = {}

C4_EachKeyVisitedAtMostOnce ==
    \A k \in Keys : CallsFor("getForgotten", k) <= 1 /\ CallsFor("processor", k) <= 1

\* C4 amended: within one pass a key is fetched and handed to the processor at
\* most as many times as it occurs in the list the server returned (so at most
\* once when the list has no duplicates), and only listed keys are visited.
C4_VisitsBoundedByOccurrences ==
    /\ \A k \in Keys :
          /\ CallsFor("getForgotten", k) <= CopiesIn(k, listed)
          /\ CallsFor("processor", k) <= CallsFor("getForgotten", k)
    /\ CallKeys("getForgotten") \subseteq BagToSet(listed)

\* C4 witness: a returned pass over a list holding a key twice visited it twice.
C4_Witness ==
    /\ pc = "returned"
    /\ \E k \in Keys : CopiesIn(k, listed) = 2 /\ CallsFor("processor", k) = 2

C6_ListFailurePropagates ==
    (Len(calls) >= 1 /\ Failed(calls[1].ans)) =>
        /\ pc = "thrown"
        /\ RejectsWith(outcome, calls[1].ans)
        /\ Len(calls) = 1

\* C6 witness: the list request was answered with a non-SUCCESS code.
C6_Witness ==
    /\ pc = "thrown"
    /\ Len(calls) = 1
    /\ calls[1].ans.t = "data"
    /\ outcome.kind = "CommandError"
    /\ serverForgotten # {}

\* C7: a getForgotten or deleteForgotten call that failed is the last call of
\* its pass, and the pass has rejected with that failure.
C7_ItemFailureAborts ==
    \A i \in CallsOf("getForgotten") \cup CallsOf("deleteForgotten") :
        Failed(calls[i].ans) =>
            /\ i = Len(calls)
            /\ pc = "thrown"
            /\ RejectsWith(outcome, calls[i].ans)

\* C7 witness: deleteForgotten failed on a key with other keys still to visit.
C7_Witness ==
    /\ pc = "thrown"
    /\ calls[Len(calls)].op = "deleteForgotten"
    /\ Failed(calls[Len(calls)].ans)
    /\ idx < Len(forgottenFiles)

\* C8: latest() is absent until a refresh has succeeded and from then on is the
\* body of the most recent successful licence response; failed refreshes leave
\* it alone.
C8_LatestIsLastSuccess ==
    /\ getLatestLicence = lastGood
    /\ lastAttempt = "none" => getLatestLicence = [absent |-> TRUE]

\* C8 witness: a refresh failed after an earlier one had succeeded.
C8_Witness ==
    /\ lastAttempt = "failed"
    /\ lastGood # Absent
    /\ getLatestLicence = lastGood
    /\ seen = lastGood

\* Keys the processor returned false for, and never true, in this pass.
KeptKeys == VerdictKeys("false") \ VerdictKeys("true")

C10_ProcessorThrowAborts ==
    \A i \in CallsOf("processor") :
        calls[i].ans.t = "throw" =>
            /\ i = Len(calls)
            /\ pc = "thrown"
            /\ outcome = [kind |-> "ProcessorError"]
            /\ calls[i].key \in serverForgotten

\* C10 witness: the processor threw after an earlier key had been deleted and
\* with keys still to visit.
C10_Witness ==
    /\ pc = "thrown"
    /\ outcome.kind = "ProcessorError"
    /\ deleted >= 1
    /\ idx < Len(forgottenFiles)

\* An answered call whose command succeeded.
Ok(ans) == ans.t = "data" /\ ans.error = Num(SUCCESS)

\* C11 (as stated): a transport failure, that is a request that failed or a body
\* that could not be parsed, is propagated as it is and never becomes a
\* CommandError; post() rejects with a CommandError only for a parsed response
\* whose error field is not SUCCESS; postUnsafe() resolves with every received
\* response whatever its error code.
C11_TransportNeverCommandError ==
    cmdPc = "settled" =>
        /\ (cmdRaw.t = "throw" => cmdPosted = TransportError)
        /\ (cmdRaw.t = "data" /\ ~IsJson(cmdRaw.data) => cmdPosted.kind # "CommandError")
        /\ (cmdPosted.kind = "CommandError" =>
                /\ cmdRaw.t = "data"
                /\ IsJson(cmdRaw.data)
                /\ cmdRaw.data.error # Num(SUCCESS))
        /\ (cmdRaw.t = "data" /\ IsJson(cmdRaw.data) =>
                postUnsafe(cmdRaw) = Resolved(cmdRaw.data))

C14_StepsStrictlySequential ==
    /\ \A i \in 1..Len(calls) :
          calls[i].ans = Pending =>
              i = Len(calls) /\ pc \notin {"idle", "returned", "thrown"}
    /\ \A i \in 2..Len(calls) :
          LET c == calls[i]
              p == calls[i - 1]
          IN CASE c.op = "getForgotten" ->
                    \/ p.op = "getForgottenList" /\ Ok(p.ans)
                    \/ p.op = "processor" /\ p.ans.t = "false"
                    \/ p.op = "deleteForgotten" /\ Ok(p.ans)
               [] c.op = "processor" ->
                    p.op = "getForgotten" /\ p.key = c.key /\ Ok(p.ans)
               [] c.op = "deleteForgotten" ->
                    p.op = "processor" /\ p.key = c.key /\ p.ans.t = "true"
               [] OTHER -> FALSE
    /\ \A i \in CallsOf("getForgotten") :
          calls[i].key =
              forgottenFiles[Cardinality({j \in CallsOf("getForgotten") : j <= i})]

\* C14 witness: a pass over two different keys ran to its end, deleting the
\* first and keeping the second.
C14_Witness ==
    /\ pc = "returned"
    /\ Len(calls) = 6
    /\ calls[4].op = "deleteForgotten"
    /\ calls[6].op = "processor"
    /\ calls[6].key # calls[4].key

\* C17: one POST request is sent for a command call, whether it is still
\* outstanding or has settled, and a call whose post() was rejected has settled
\* with that rejection.
C17_NoRetry ==
    /\ cmdPc \in {"pending", "settled"} => cmdPosts = 1
    /\ (cmdPc = "settled" /\ cmdPosted.kind # "value") => cmdOut = cmdPosted

\* C17 witness: a call answered with a non-SUCCESS code has settled as rejected
\* after its one request.
C17_Witness ==
    /\ cmdPc = "settled"
    /\ cmdPosts = 1
    /\ cmdRaw.t = "data"
    /\ cmdRaw.data.error = Num(KEY_MISSING_OR_DOC_NOT_FOUND)
    /\ cmdOut = CommandError(Num(KEY_MISSING_OR_DOC_NOT_FOUND))

\* C18: in a pass, every deleteForgotten of a key comes after a processor call
\* for that key that answered true; every processor call for a key comes after
\* a successful getForgotten of that key and is given the url that call
\* returned; and there are at most as many deleteForgotten calls as processor
\* calls, as many processor calls as getForgotten calls, and as many
\* getForgotten calls as entries in the list.
C18_DeleteOnlyAfterTrue ==
    /\ \A i \in CallsOf("deleteForgotten") :
          \E j \in 1..(i - 1) :
              /\ calls[j].op = "processor"
              /\ calls[j].key = calls[i].key
              /\ calls[j].ans.t = "true"
    /\ \A i \in CallsOf("processor") :
          /\ \E j \in 1..(i - 1) :
                /\ calls[j].op = "getForgotten"
                /\ calls[j].key = calls[i].key
                /\ Ok(calls[j].ans)
          /\ calls[i].arg = UrlOf(calls[i].key)
    /\ Cardinality(CallsOf("deleteForgotten")) <= Cardinality(CallsOf("processor"))
    /\ Cardinality(CallsOf("processor")) <= Cardinality(CallsOf("getForgotten"))
    /\ Cardinality(CallsOf("getForgotten")) <= BagCardinality(listed)

\* C18 witness: a pass over a list of MaxLen entries has returned after
\* fetching and processing each of them and deleting one.
C18_Witness ==
    /\ pc = "returned"
    /\ Cardinality(CallsOf("getForgotten")) = MaxLen
    /\ Cardinality(CallsOf("processor")) = MaxLen
    /\ Cardinality(CallsOf("deleteForgotten")) = 1

\* C19: when a pass is rejected after its list was received, it has no count,
\* every key whose deleteForgotten succeeded is gone from the server's
\* forgotten set, and every key of the list that the loop has not reached is
\* still in it.
C19_AbortKeepsDeletions ==
    (pc = "thrown" /\ gotList) =>
        /\ outcome.kind \notin {"value", "none"}
        /\ \A i \in CallsOf("deleteForgotten") :
              Ok(calls[i].ans) => calls[i].key \notin serverForgotten
        /\ \A j \in (idx + 1)..Len(forgottenFiles) :
              forgottenFiles[j] \notin {forgottenFiles[m] : m \in 1..idx}
                  => forgottenFiles[j] \in serverForgotten

\* C19 witness: a pass was rejected at its second entry after deleting the
\* first, with a third entry of another key not reached.
C19_Witness ==
    /\ pc = "thrown"
    /\ gotList
    /\ deleted = 1
    /\ idx = 2
    /\ Len(forgottenFiles) = 3
    /\ forgottenFiles[1] \notin serverForgotten
    /\ forgottenFiles[3] \notin {forgottenFiles[1], forgottenFiles[2]}
    /\ forgottenFiles[3] \in serverForgotten

\* C15: after every refresh attempt, failed ones included, another refresh is
\* eventually under way, and once the producer has succeeded latest() is
\* eventually a value.
C15_RefreshLoopContinues ==
    /\ (lastAttempt # "none") ~> (pollPc = "refreshing")
    /\ (lastAttempt = "ok") ~> (latest # Absent)

\* C15 witness: a refresh is under way after a failed one.
C15_Witness ==
    /\ lastAttempt = "failed"
    /\ pollPc = "refreshing"

C20_PassWorksOnSnapshot ==
    pc # "idle" =>
        /\ CallsOf("getForgottenList") = {1}
        /\ (CallKeys("getForgotten") \cup CallKeys("processor")
                \cup CallKeys("deleteForgotten")) \subseteq BagToSet(listed)
        /\ Len(forgottenFiles) = BagCardinality(listed)
        /\ idx <= Len(forgottenFiles)
        /\ Cardinality(CallsOf("getForgotten")) = idx
        /\ (pc = "returned" => idx = Len(forgottenFiles))

\* C20 witness: a pass has returned after an iteration for each entry of its
\* list, and the server holds a key that was not in the list.
C20_Witness ==
    /\ pc = "returned"
    /\ idx = 2
    /\ Cardinality(CallsOf("processor")) = 2
    /\ \E k \in serverForgotten : ~BagIn(k, listed)

====
